---- MODULE Spec2Model ----
(***************************************************************************)
(* The command relay of docs/example-collaborative/server.py: the          *)
(* CommandDataStore (id counter, mutex, list of commands) and the two      *)
(* request handlers that use it, run by concurrent handler threads (the    *)
(* server is http.server's threading server, one thread per request).      *)
(*                                                                         *)
(* Text is a sequence of one-character strings.  A list object of the      *)
(* Python heap is an element of `lists`; the attribute command_data holds  *)
(* the index of one of them, so that `self.command_data[1:]` makes a new   *)
(* object while append() changes an object in place.                       *)
(*                                                                         *)
(* A step is the code between two points where another thread can see or  *)
(* change shared state: `self.id_counter += 1` is a read and a write, not  *)
(* under the Lock; acquire() and the append are one step (nobody but the   *)
(* holder changes the list while the Lock is held, and the counter is read *)
(* at the append); the length check, the slice, release() and the 200      *)
(* response are one step.  get_commands_since takes no Lock: it reads the  *)
(* attribute in one step and ends its scan of that object in another.      *)
(***************************************************************************)
EXTENDS Integers, Sequences, FiniteSets, TLC

\* ------------------------------------------------------------------ bounds

\* The retention limit of add_command; 500 in the source, scaled down.
MaxStored == 2
\* POST requests accepted for add_command over a run.
MaxAppends == 4

Posters == {"w1", "w2"}
Pollers == {"p"}
Threads == Posters \cup Pollers

\* ------------------------------------------------------------------ text

Digits == <<"0", "1", "2", "3", "4", "5", "6", "7", "8", "9">>

IsDigit(c) == \E i \in 1..10 : Digits[i] = c

DigitVal(c) == (CHOOSE i \in 1..10 : Digits[i] = c) - 1

AllDigits(s) == \A i \in 1..Len(s) : IsDigit(s[i])

Front(s) == SubSeq(s, 1, Len(s) - 1)

Last(s) == s[Len(s)]

Min(a, b) == IF a < b THEN a ELSE b

\* int(text) of a string of decimal digits
RECURSIVE ParseInt(_)
ParseInt(s) == IF s = <<>> THEN 0 ELSE ParseInt(Front(s)) * 10 + DigitVal(Last(s))

\* ------------------------------------------------------------------ requests

CommandsSincePrefix == "/commandsSince/"

\* What follows /commandsSince/ in the paths requested: numbers, with and
\* without a leading zero, nothing, and text that is no number
MarkerTexts ==
    { <<>>, <<"0">>, <<"1">>, <<"2">>, <<"0", "2">>, <<"2", "0">>,
      <<"x">>, <<"2", "x">>, <<"x", "2">> }

\* The GET paths that do_GET hands to handle_command_request
Paths == {<<CommandsSincePrefix>> \o m : m \in MarkerTexts}

\* A pattern that also takes the empty marker: \d* in place of \d+
PathMatchesEmptyMarker(path) ==
    /\ Len(path) >= 1
    /\ path[1] = CommandsSincePrefix
    /\ AllDigits(Tail(path))

\* commandsSincePathExp.match(path) is not None
PathMatches(path) ==
    /\ Len(path) >= 2
    /\ path[1] = CommandsSincePrefix
    /\ AllDigits(Tail(path))

\* match.group(1)
PathGroup1(path) == Tail(path)

\* The marker taken as the first id to return
SinceIdSameAsMarker(path) == ParseInt(PathGroup1(path))

\* since_id = int(match.group(1)) + 1
SinceId(path) == ParseInt(PathGroup1(path)) + 1

\* The request bodies sent: the documents 0 and {}, and texts that are no
\* JSON document
Bodies ==
    { <<>>, <<"0">>, <<"{", "}">>,
      <<"0", "0">>, <<"{">>, <<"}", "{">>, <<"0", "}">> }

\* Content-Length headers: small ones, 2 MiB, 2 MiB + 1 and 3 MiB
ContentLengths ==
    { <<"0">>, <<"1">>, <<"2">>,
      <<"2", "0", "9", "7", "1", "5", "2">>,
      <<"2", "0", "9", "7", "1", "5", "3">>,
      <<"3", "1", "4", "5", "7", "2", "8">> }

max_size == 1024 * 1024 * 2

\* A limit that the largest allowed body already exceeds
ExceedsMaxInclusive(target_len) == max_size <= target_len

\* if max_size < target_len
ExceedsMax(target_len) == max_size < target_len

\* self.rfile.read(n): the first n characters of the body, fewer at its end
RfileRead(body, n) == SubSeq(body, 1, Min(n, Len(body)))

\* The values json.loads returns here: an int, or a dict (with its keys)
JsonInt(n) == [type |-> "int", value |-> n, keys |-> {}]
JsonDict(ks) == [type |-> "dict", value |-> 0, keys |-> ks]
NoData == [type |-> "None", value |-> 0, keys |-> {}]

\* A parser that takes any text that begins like a JSON document
JsonLoadsLenient(data) ==
    IF data # <<>> /\ IsDigit(data[1])
    THEN [ok |-> TRUE, value |-> JsonInt(DigitVal(data[1]))]
    ELSE IF data # <<>> /\ data[1] = "{"
    THEN [ok |-> TRUE, value |-> JsonDict({})]
    ELSE [ok |-> FALSE, value |-> NoData]

\* json.loads on the documents this alphabet can spell: a JSON number is
\* "0" or a digit string without a leading zero, "{}" is the empty object;
\* anything else raises JSONDecodeError.
JsonLoads(data) ==
    IF /\ data # <<>>
       /\ AllDigits(data)
       /\ (Len(data) = 1 \/ data[1] # "0")
    THEN [ok |-> TRUE, value |-> JsonInt(ParseInt(data))]
    ELSE IF data = <<"{", "}">>
    THEN [ok |-> TRUE, value |-> JsonDict({})]
    ELSE [ok |-> FALSE, value |-> NoData]

\* The responses: send_error(code, message), the empty 200 of a POST and
\* send_json(commands)
NoResponse == [to |-> "nobody", status |-> 0, message |-> "none", commands |-> <<>>]
SendError(t, code, text) == [to |-> t, status |-> code, message |-> text, commands |-> <<>>]
SendOk(t) == [to |-> t, status |-> 200, message |-> "OK", commands |-> <<>>]
SendJson(t, obj) == [to |-> t, status |-> 200, message |-> "json", commands |-> obj]
TooLarge(t) == SendError(t, 400, "JSON data exceeds maximum size")
BadJson(t) == SendError(t, 400, "Bad JSON data.")
BadPath(t) == SendError(t, 404, "commandsSince requests must match")

\* ------------------------------------------------------------------ state

VARIABLES
    id_counter,          \* CommandDataStore.id_counter
    lists,               \* the list objects made so far
    command_data,        \* CommandDataStore.command_data: index into lists
    command_data_mutex,  \* "free" or the thread that holds the Lock
    pc,                  \* where each handler thread is
    loaded,              \* add_command: the value read by `self.id_counter += 1`
    json_data,           \* add_command: its argument
    since_id,            \* handle_command_request: since_id
    ref,                 \* get_commands_since: the list object being filtered
    response,            \* what the step just taken sent to its client
    rfile_read,          \* whether the step just taken read a body from rfile
    appended,            \* history: every command appended, in append order
    maxDone,             \* history: largest id stored by an add_command that returned
    pred,                \* history: maxDone when each running add_command was called
    accepted,            \* history: number of add_command calls made
    mine,                \* history: the id each running add_command stored
    queried,             \* history: the log when get_commands_since was called
    marker,              \* polling client: the largest id it has received
    received,            \* polling client: how often it got each command (2: more)
    seen                 \* polling client: commands appended when it last saw the log

store == <<id_counter, lists, command_data, command_data_mutex>>
locals == <<pc, loaded, json_data, since_id, ref>>
io == <<response, rfile_read>>
history == <<appended, maxDone, pred, accepted, mine, queried>>
client == <<marker, received, seen>>
vars == <<store, locals, io, history, client>>

\* The list that self.command_data refers to
Log == lists[command_data]

Ids(s) == [i \in 1..Len(s) |-> s[i].id]

Init ==
    /\ id_counter = 0
    /\ lists = << <<>> >>
    /\ command_data = 1
    /\ command_data_mutex = "free"
    /\ pc = [t \in Threads |-> "idle"]
    /\ loaded = [t \in Posters |-> 0]
    /\ json_data = [t \in Posters |-> NoData]
    /\ since_id = [p \in Pollers |-> 0]
    /\ ref = [p \in Pollers |-> 0]
    /\ response = NoResponse
    /\ rfile_read = FALSE
    /\ appended = <<>>
    /\ maxDone = 0
    /\ pred = [t \in Posters |-> 0]
    /\ accepted = 0
    /\ mine = [t \in Posters |-> 0]
    /\ queried = [p \in Pollers |-> <<>>]
    /\ marker = 0
    /\ received = [n \in 1..MaxAppends |-> 0]
    /\ seen = 0

\* A step that sends nothing and reads no body
Silent == response' = NoResponse /\ rfile_read' = FALSE

\* ------------------------------------------------------------------ POST

\* handle_command_post up to the call of add_command: the size check, the
\* read, json.loads.  Nothing shared is touched.
handle_command_post(t, header, body) ==
    /\ pc[t] = "idle"
    /\ LET target_len == ParseInt(header)
           data == RfileRead(body, target_len)
           parsed == JsonLoads(data)
       IN IF ExceedsMax(target_len)
          THEN /\ response' = TooLarge(t)
               /\ rfile_read' = FALSE
               /\ UNCHANGED <<pc, json_data, pred, accepted>>
          ELSE IF ~parsed.ok
          THEN /\ response' = BadJson(t)
               /\ rfile_read' = TRUE
               /\ UNCHANGED <<pc, json_data, pred, accepted>>
          ELSE /\ accepted < MaxAppends
               /\ response' = NoResponse
               /\ rfile_read' = TRUE
               /\ json_data' = [json_data EXCEPT ![t] = parsed.value]
               /\ pred' = [pred EXCEPT ![t] = maxDone]
               /\ accepted' = accepted + 1
               /\ pc' = [pc EXCEPT ![t] = "inc_load"]
    /\ UNCHANGED <<store, loaded, since_id, ref>>
    /\ UNCHANGED <<appended, maxDone, mine, queried, client>>

\* `self.id_counter += 1`, first half: the attribute is read
IncLoad(t) ==
    /\ pc[t] = "inc_load"
    /\ loaded' = [loaded EXCEPT ![t] = id_counter]
    /\ pc' = [pc EXCEPT ![t] = "inc_store"]
    /\ Silent
    /\ UNCHANGED <<store, json_data, since_id, ref, history, client>>

\* `self.id_counter += 1`, second half: the sum is stored
IncStore(t) ==
    /\ pc[t] = "inc_store"
    /\ id_counter' = loaded[t] + 1
    /\ loaded' = [loaded EXCEPT ![t] = 0]
    /\ pc' = [pc EXCEPT ![t] = "acquire"]
    /\ Silent
    /\ UNCHANGED <<lists, command_data, command_data_mutex>>
    /\ UNCHANGED <<json_data, since_id, ref, history, client>>

\* self.command_data_mutex.acquire(), which waits until the Lock is free,
\* and self.command_data.append({ "id": self.id_counter, "data": json_data })
AcquireAppend(t) ==
    /\ pc[t] = "acquire"
    /\ command_data_mutex = "free"
    /\ command_data_mutex' = t
    /\ LET n == Len(appended) + 1
           command == [id |-> id_counter, data |-> json_data[t], n |-> n]
       IN /\ lists' = [lists EXCEPT ![command_data] = Append(@, command)]
          /\ appended' = Append(appended, command)
          /\ mine' = [mine EXCEPT ![t] = id_counter]
    /\ pc' = [pc EXCEPT ![t] = "limit"]
    /\ Silent
    /\ UNCHANGED <<id_counter, command_data>>
    /\ UNCHANGED <<loaded, json_data, since_id, ref>>
    /\ UNCHANGED <<maxDone, pred, accepted, queried, client>>

\* An eviction that drops the two oldest commands
EvictTwo(command_list) == Tail(Tail(command_list))

\* An eviction that drops the newest command instead of the oldest
EvictNewest(command_list) == Front(command_list)

\* self.command_data[1:]
Evict(command_list) == Tail(command_list)

\* An add_command that returns without releasing the Lock
release_skipped(t) == t

\* self.command_data_mutex.release(): the Lock after it
release(t) == "free"

\* if len(self.command_data) > 500: self.command_data = self.command_data[1:]
\* then self.command_data_mutex.release(), and handle_command_post's else
\* branch: the empty 200 response
LimitRelease(t) ==
    /\ pc[t] = "limit"
    /\ IF Len(Log) > MaxStored
       THEN /\ lists' = Append(lists, Evict(Log))
            /\ command_data' = Len(lists) + 1
       ELSE UNCHANGED <<lists, command_data>>
    /\ command_data_mutex' = release(t)
    /\ pc' = [pc EXCEPT ![t] = "idle"]
    /\ json_data' = [json_data EXCEPT ![t] = NoData]
    /\ response' = SendOk(t)
    /\ rfile_read' = FALSE
    /\ maxDone' = IF mine[t] > maxDone THEN mine[t] ELSE maxDone
    /\ mine' = [mine EXCEPT ![t] = 0]
    /\ pred' = [pred EXCEPT ![t] = 0]
    /\ UNCHANGED <<id_counter, loaded, since_id, ref>>
    /\ UNCHANGED <<appended, accepted, queried, client>>

\* ------------------------------------------------------------------ GET

\* A comparison that lets the command just below min_id through
command_matches_from_below(command_record, min_id) == command_record.id >= min_id - 1

\* def command_matches(command_record): return command_record['id'] >= min_id
command_matches(command_record, min_id) == command_record.id >= min_id

\* list(filter(command_matches, command_list))
Filter(command_list, min_id) ==
    SelectSeq(command_list, LAMBDA c : command_matches(c, min_id))

\* handle_command_request up to the point where get_commands_since has read
\* the attribute self.command_data; a path that does not match is answered
\* here.
handle_command_request(p, path) ==
    /\ pc[p] = "idle"
    /\ IF ~PathMatches(path)
       THEN /\ response' = BadPath(p)
            /\ UNCHANGED <<pc, since_id, ref, queried>>
       ELSE /\ since_id' = [since_id EXCEPT ![p] = SinceId(path)]
            /\ ref' = [ref EXCEPT ![p] = command_data]
            /\ queried' = [queried EXCEPT ![p] = Log]
            /\ pc' = [pc EXCEPT ![p] = "filter"]
            /\ response' = NoResponse
    /\ rfile_read' = FALSE
    /\ UNCHANGED <<store, loaded, json_data>>
    /\ UNCHANGED <<appended, maxDone, pred, accepted, mine>>

\* get_commands_since: the filter reaches the end of the list object it
\* was given.  An append() made to that object in the meantime is seen (the
\* list iterator looks at the length at every step and the elements before
\* it never change); a list that replaced it in self.command_data is not.
\* Then send_json(result).
get_commands_since(p) ==
    /\ pc[p] = "filter"
    /\ response' = SendJson(p, Filter(lists[ref[p]], since_id[p]))
    /\ rfile_read' = FALSE
    /\ pc' = [pc EXCEPT ![p] = "idle"]
    /\ ref' = [ref EXCEPT ![p] = 0]
    /\ queried' = [queried EXCEPT ![p] = <<>>]
    /\ since_id' = [since_id EXCEPT ![p] = 0]
    /\ UNCHANGED <<store, loaded, json_data>>
    /\ UNCHANGED <<appended, maxDone, pred, accepted, mine>>

\* ------------------------------------------------------------------ system

\* A request to POST /postCommand: its Content-Length header and its body
Requests == [header : ContentLengths, body : Bodies]

\* The requests that handle_command_post accepts
GoodRequests == {r \in Requests :
    /\ ParseInt(r.header) = Len(r.body)
    /\ JsonLoads(r.body).ok}

GoodPaths == {path \in Paths : PathMatches(path)}

Post(posters, requests) == \E t \in posters, r \in requests :
    handle_command_post(t, r.header, r.body)

AddCommand(posters) == \E t \in posters :
    IncLoad(t) \/ IncStore(t) \/ AcquireAppend(t) \/ LimitRelease(t)

Get(paths) == \E p \in Pollers, path \in paths :
    handle_command_request(p, path) /\ UNCHANGED client

GetCommandsSince == \E p \in Pollers : get_commands_since(p) /\ UNCHANGED client

\* The store under concurrent well-formed requests
Next == Post(Posters, GoodRequests) \/ AddCommand(Posters) \/ Get(GoodPaths) \/ GetCommandsSince

Spec == Init /\ [][Next]_vars

\* The request handlers under every request, well-formed or not, with one
\* thread posting
NextHttp == Post({"w1"}, Requests) \/ AddCommand({"w1"}) \/ Get(Paths) \/ GetCommandsSince

SpecHttp == Init /\ [][NextHttp]_vars

\* One well-formed request and the markers 0 and 2
OneRequest == {[header |-> <<"1">>, body |-> <<"0">>]}
TwoPaths == {<<CommandsSincePrefix, "0">>, <<CommandsSincePrefix, "2">>}

NextFair ==
    Post(Posters, OneRequest) \/ AddCommand(Posters) \/ Get(TwoPaths) \/ GetCommandsSince

\* The store under a scheduler that lets every thread that can take a step
\* take one in the end.  acquire() promises no order among the threads
\* that wait, so it gets weak fairness like every other step.
SpecFair ==
    /\ Init /\ [][NextFair]_vars
    /\ \A t \in Posters :
          WF_vars(IncLoad(t) \/ IncStore(t) \/ AcquireAppend(t) \/ LimitRelease(t))
    /\ \A p \in Pollers : WF_vars(get_commands_since(p) /\ UNCHANGED client)

\* ------------------------------------------------------------------ client

\* The decimal text of a number
RECURSIVE FormatInt(_)
FormatInt(n) ==
    IF n < 10 THEN <<Digits[n + 1]>>
    ELSE FormatInt(n \div 10) \o <<Digits[(n % 10) + 1]>>

Max(a, b) == IF a > b THEN a ELSE b

RECURSIVE MaxId(_)
MaxId(commands) ==
    IF commands = <<>> THEN 0 ELSE Max(Head(commands).id, MaxId(Tail(commands)))

\* The client asks for /commandsSince/{marker}
ClientPoll ==
    /\ handle_command_request("p", <<CommandsSincePrefix>> \o FormatInt(marker))
    /\ UNCHANGED client

\* The client takes the commands of the answer and moves its marker to the
\* largest id among them
ClientReceive ==
    /\ get_commands_since("p")
    /\ LET commands == response'.commands
           got == {commands[i].n : i \in 1..Len(commands)}
       IN /\ marker' = Max(marker, MaxId(commands))
          /\ received' = [n \in 1..MaxAppends |->
                             IF n \in got THEN Min(received[n] + 1, 2) ELSE received[n]]
          /\ seen' = IF ref["p"] = command_data THEN Len(appended) ELSE seen

NextClient ==
    Post(Posters, GoodRequests) \/ AddCommand(Posters) \/ ClientPoll \/ ClientReceive

SpecClient == Init /\ [][NextClient]_vars

\* ------------------------------------------------------------------ claims

AllIdle == \A t \in Posters : pc[t] = "idle"

\* C1: no two commands ever appended to the log, evicted ones included,
\* carry the same id.
C1_UniqueIds ==
    \A i, j \in 1..Len(appended) : i # j => appended[i].id # appended[j].id

\* C2: an add_command that was called after another add_command had
\* returned stores an id strictly larger than the id that one stored.
C2_RealTimeOrder ==
    \A t \in Posters : pc[t] = "limit" => pred[t] < mine[t]

\* C3: in every state the stored sequence command_data is ordered by id,
\* strictly ascending.
C3_LogAscending ==
    \A i \in 1..(Len(Log) - 1) : Log[i].id < Log[i + 1].id

\* No command left the log before the client had received it
NeverBehind ==
    \A i \in 1..Len(appended) :
        received[i] > 0 \/ \E k \in 1..Len(Log) : Log[k].n = i

\* C4: a client that polls with the largest id it has received, and that
\* never fell behind the retained commands, has received every appended
\* command exactly once whenever it has seen the log as it is now, and has
\* never received a command twice.
C4_EveryCommandOnce ==
    /\ \A i \in 1..MaxAppends : received[i] <= 1
    /\ (seen = Len(appended) /\ NeverBehind)
          => \A i \in 1..Len(appended) : received[i] = 1

IsSlice(r, whole) ==
    \E a \in 1..(Len(whole) + 1) : \E b \in 0..Len(whole) : r = SubSeq(whole, a, b)

Occurs(c, r) == \E i \in 1..Len(r) : r[i] = c

\* C5: when a poll that ran beside appends returns a command with id N, it
\* returns every command of id from minId up to N that the log held when
\* the query was made, and what it returns is a run of consecutive
\* appends: a contiguous slice of the append order.
C5_ConsistentSlice ==
    [][\A p \in Pollers : get_commands_since(p) =>
         LET r == response'.commands
         IN /\ \A i \in 1..Len(r) : \A k \in 1..Len(queried[p]) :
                 (since_id[p] <= queried[p][k].id /\ queried[p][k].id < r[i].id)
                     => Occurs(queried[p][k], r)
            /\ IsSlice(r, appended)]_vars

LastN(s, k) == SubSeq(s, Len(s) - k + 1, Len(s))

\* C6: with no add_command running, the log holds at most MaxStored
\* commands, exactly MaxStored once more than that were appended, and they
\* are the most recently appended ones in append order.
C6_BoundedRetention ==
    AllIdle =>
        /\ Len(Log) <= MaxStored
        /\ (Len(appended) > MaxStored => Len(Log) = MaxStored)
        /\ Log = LastN(appended, Min(MaxStored, Len(appended)))

C6_Witness ==
    /\ AllIdle
    /\ Len(appended) = MaxStored + 1
    /\ Len(Log) = MaxStored
    /\ Log = Tail(appended)

MinIds == 0..(MaxAppends + 1)

\* C7: for every minId and every state of the log, get_commands_since
\* returns the retained commands of id >= minId, each once, none of a
\* smaller id, in ascending order of id (nothing when there is none).
C7_SinceQuery ==
    \A min_id \in MinIds :
        LET r == Filter(Log, min_id)
        IN /\ \A k \in 1..Len(Log) :
                Cardinality({i \in 1..Len(r) : r[i] = Log[k]})
                    = IF Log[k].id >= min_id THEN 1 ELSE 0
           /\ \A i \in 1..Len(r) : Occurs(r[i], Log) /\ r[i].id >= min_id
           /\ \A i \in 1..(Len(r) - 1) : r[i].id <= r[i + 1].id

\* The markers that the paths of the polls spell
Markers == {ParseInt(PathGroup1(path)) : path \in GoodPaths}

\* C8: GET /commandsSince/m returns what get_commands_since(m + 1) returns:
\* the commands of id strictly greater than m, so a poll with the id of
\* the last command received does not return that command again.
C8_PollMarker ==
    [][\A p \in Pollers :
         /\ \A m \in Markers :
              handle_command_request(p, <<CommandsSincePrefix>> \o FormatInt(m))
                  => pc'[p] = "filter" /\ since_id'[p] = m + 1
         /\ get_commands_since(p) =>
              response'.commands =
                  SelectSeq(lists[ref[p]], LAMBDA c : c.id > since_id[p] - 1)]_vars

\* After appends with ids 1, 2, 3 a poll returned the command of id 3 alone
C8_Witness ==
    /\ Ids(appended) = <<1, 2, 3>>
    /\ response.message = "json"
    /\ Ids(response.commands) = <<3>>

DeclaredSizes == {0, 1, 2, 2097152, 2097153, 3145728}

\* C9: a POST that declares more than 2 MiB (2097152) is answered 400
\* before its body is read, and the sequence and the id counter stay as
\* they are; a POST that declares 2 MiB or less is not rejected for its
\* size.
C9_TooLargeRejected ==
    [][\A t \in Posters : \A n \in DeclaredSizes : \A body \in Bodies :
         handle_command_post(t, FormatInt(n), body) =>
            IF n > 2097152
            THEN /\ response'.to = t /\ response'.status = 400
                 /\ ~rfile_read'
                 /\ pc' = pc
                 /\ UNCHANGED <<id_counter, lists, command_data>>
            ELSE /\ rfile_read'
                 /\ response'.message # "JSON data exceeds maximum size"]_vars

C9_Witness ==
    /\ response.status = 400
    /\ response.message = "JSON data exceeds maximum size"
    /\ ~rfile_read
    /\ Len(Log) > 0

\* Posts within the size limit whose body, as far as it is read, is no
\* JSON document
MalformedPosts ==
    { [n |-> 0, body |-> <<>>],
      [n |-> 0, body |-> <<"0">>],
      [n |-> 1, body |-> <<"{">>],
      [n |-> 1, body |-> <<"{", "}">>],
      [n |-> 2, body |-> <<"0", "0">>],
      [n |-> 2, body |-> <<"}", "{">>],
      [n |-> 2, body |-> <<"0", "}">>],
      [n |-> 2097152, body |-> <<"{">>] }

IsMarker(m) ==
    /\ m # <<>>
    /\ \A i \in 1..Len(m) : m[i] \in {"0", "1", "2", "3", "4", "5", "6", "7", "8", "9"}

C12_EmptyPoll ==
    /\ [](\A m \in Markers : m >= MaxId(Log) =>
            Filter(Log, SinceId(<<CommandsSincePrefix>> \o FormatInt(m))) = <<>>)
    /\ [][\A p \in Pollers :
            (/\ get_commands_since(p)
             /\ lists[ref[p]] = queried[p]
             /\ since_id[p] - 1 >= MaxId(queried[p]))
                => /\ response'.commands = <<>>
                   /\ response'.status = 200
                   /\ UNCHANGED <<id_counter, lists, command_data>>]_vars

\* A poll was answered with the empty list when the log held commands and
\* no add_command was running
C12_Witness ==
    /\ response.message = "json"
    /\ response.commands = <<>>
    /\ AllIdle
    /\ command_data = 1
    /\ Len(Log) = 2
    /\ MaxId(Log) = 2

\* C13: ids are given without gaps in the order of the appends: the k-th
\* command appended has id k, and the ids of adjacent commands of the log
\* differ by exactly 1.
C13_GapFreeIds ==
    /\ \A k \in 1..Len(appended) : appended[k].id = k
    /\ \A i \in 1..(Len(Log) - 1) : Log[i + 1].id = Log[i].id + 1

\* C14: append and query exclude each other: in no state is a
\* get_commands_since reading the list of command_data while an
\* add_command has made its insert and not yet finished its evict step.
C14_AppendQueryExclusive ==
    \A p \in Pollers : \A t \in Posters :
        ~(pc[p] = "filter" /\ ref[p] = command_data /\ pc[t] = "limit")

\* C15: the log never holds more than MaxStored commands in a state in
\* which a poll can read it (a poll takes no lock, so: in any state), an
\* add_command in progress included, and no answer of get_commands_since
\* holds more than MaxStored commands.
C15_NeverOverLimit ==
    /\ response.message = "json" => Len(response.commands) <= MaxStored
    /\ Len(Log) <= MaxStored

\* The list that self.command_data refers to after the step
LogAfter == lists'[command_data']

\* C16: an add_command inserts exactly one entry, at the end, with the
\* payload it was given; it removes the front entry and nothing else when
\* the size after the insert exceeds MaxStored, and nothing otherwise; the
\* other entries keep id, payload and order; no other step changes the
\* log.
C16_AddCommandFrame ==
    [][/\ \A t \in Posters :
            /\ AcquireAppend(t) =>
                  /\ Len(LogAfter) = Len(Log) + 1
                  /\ Front(LogAfter) = Log
                  /\ Last(LogAfter).data = json_data[t]
            /\ LimitRelease(t) =>
                  IF Len(Log) > MaxStored
                  THEN /\ Len(LogAfter) = Len(Log) - 1
                       /\ \A i \in 1..Len(LogAfter) : LogAfter[i] = Log[i + 1]
                  ELSE LogAfter = Log
       /\ (\A u \in Posters : ~AcquireAppend(u) /\ ~LimitRelease(u))
             => LogAfter = Log]_vars

\* An add_command has just returned after inserting its command into a
\* full log and removing the front entry
C16_Witness ==
    /\ response.message = "OK"
    /\ command_data >= 2
    /\ Len(lists[command_data - 1]) = MaxStored + 1
    /\ Log = Tail(lists[command_data - 1])
    /\ Last(Log) = Last(appended)

\* The thread whose handler takes the step
Stepping(t) == pc'[t] # pc[t] \/ response'.to = t

\* C17: every step that changes the command sequence or the id counter is
\* a step of an add_command whose thread holds command_data_mutex (from
\* that step on or up to it); get_commands_since and every request that is
\* rejected leave the sequence and the id counter as they are.
C17_ChangesUnderMutex ==
    [][/\ <<id_counter, lists, command_data>>' # <<id_counter, lists, command_data>>
            => \E t \in Posters :
                  /\ Stepping(t)
                  /\ pc[t] \in {"inc_load", "inc_store", "acquire", "limit"}
                  /\ command_data_mutex = t \/ command_data_mutex' = t
       /\ (\/ \E p \in Pollers : get_commands_since(p)
           \/ response'.status \in {400, 404})
            => UNCHANGED <<id_counter, lists, command_data>>]_vars

\* C18: under fair scheduling every add_command that was called returns,
\* with the mutex not held by its thread, and every poll is answered; at
\* most one add_command is between acquire() and release(), the mutex is
\* held by that one and by nobody once no add_command is running.
C18_AppendsComplete ==
    /\ [](/\ Cardinality({t \in Posters : pc[t] = "limit"}) <= 1
          /\ \A t \in Posters : command_data_mutex = t <=> pc[t] = "limit"
          /\ AllIdle => command_data_mutex = "free")
    /\ \A t \in Posters :
          (pc[t] # "idle") ~> (pc[t] = "idle" /\ command_data_mutex # t)
    /\ \A p \in Pollers : (pc[p] = "filter") ~> (pc[p] = "idle")

\* An add_command has returned and released the Lock while another one is
\* about to acquire it and a poll is being answered
C18_Witness ==
    /\ response.message = "OK"
    /\ command_data_mutex = "free"
    /\ Len(appended) = MaxAppends - 1
    /\ \E t \in Posters : pc[t] = "acquire"
    /\ \E p \in Pollers : pc[p] = "filter"

====
